---- MODULE Spec2Model ----
(***************************************************************************)
(* A model of urlpy.URL (src/urlpy.py): the URL value, its in-place        *)
(* normalization operations and the equivalence test.                      *)
(*                                                                         *)
(* A Python str is a sequence of code points (integers).  None is the      *)
(* empty tuple and a value v that may be None is the one-element tuple     *)
(* <<v>>, so that '' (the empty str, <<>> inside the tuple) and None stay  *)
(* distinct.  scheme and host are opaque TLA+ strings, "" when absent.     *)
(***************************************************************************)
EXTENDS Integers, Sequences, FiniteSets, TLC

VARIABLES a, b, pre, last, arg, ret, streak, ret2

vars == <<a, b, pre, last, arg, ret, streak, ret2>>

None == << >>

Some(v) == <<v>>

(***************************************************************************)
(* Bounds of the explored inputs.                                          *)
(***************************************************************************)
MaxPathLen == 5

MaxQueryLen == 4

MaxFilterLen == 5

MaxParamsLen == 3

MaxUserinfoLen == 2

\* the str over chars of at most n characters
Strs(chars, n) == UNION {[1..k -> chars] : k \in 0..n}

(***************************************************************************)
(* Character classes (URL.UNRESERVED .. URL.USERINFO), as code points.     *)
(***************************************************************************)
ALPHA == (65..90) \cup (97..122)

DIGIT == 48..57

\* ALPHA + DIGIT + "-._~"
UNRESERVED == ALPHA \cup DIGIT \cup {45, 46, 95, 126}

\* "!$&'()*+,;="
SUB_DELIMS == {33, 36, 38, 39, 40, 41, 42, 43, 44, 59, 61}

\* UNRESERVED + SUB_DELIMS + ":@"
PCHAR == UNRESERVED \cup SUB_DELIMS \cup {58, 64}

\* PCHAR + "/"
PATH == PCHAR \cup {47}

\* PCHAR + "/?"
QUERY == PCHAR \cup {47, 63}

\* UNRESERVED + SUB_DELIMS + ":"
USERINFO == UNRESERVED \cup SUB_DELIMS \cup {58}

\* The default ports associated with each scheme
PORTS == [http |-> 80, https |-> 443]

(***************************************************************************)
(* str helpers: split, join, the regular-expression substitutions of the   *)
(* constructor and of abspath, sorted, lower, partition.                   *)
(***************************************************************************)
\* s[i:] (1-based i)
From(s, i) == IF i > Len(s) THEN << >> ELSE SubSeq(s, i, Len(s))

RECURSIVE split_from(_, _, _)
\* the parts of s \o cur, cur being the part read so far
split_from(s, sep, cur) ==
    IF s = << >> THEN <<cur>>
    ELSE IF Head(s) = sep THEN <<cur>> \o split_from(Tail(s), sep, << >>)
    ELSE split_from(Tail(s), sep, Append(cur, Head(s)))

\* s.split(sep): always at least one part, '' gives ['']
split(s, sep) == split_from(s, sep, << >>)

RECURSIVE join(_, _)
\* sep.join(parts)
join(parts, sep) ==
    IF parts = << >> THEN << >>
    ELSE IF Len(parts) = 1 THEN parts[1]
    ELSE parts[1] \o <<sep>> \o join(Tail(parts), sep)

RECURSIVE collapse_once(_, _)
\* s.replace(sep + sep, sep): one pass over the pairs, a run of three keeps two
collapse_once(s, sep) ==
    IF Len(s) < 2 THEN s
    ELSE IF s[1] = sep /\ s[2] = sep
         THEN <<sep>> \o collapse_once(From(s, 3), sep)
    ELSE <<s[1]>> \o collapse_once(Tail(s), sep)

RECURSIVE collapse(_, _)
\* re.sub(sep{2,}, sep, s): every run of sep becomes one sep
collapse(s, sep) ==
    IF Len(s) < 2 THEN s
    ELSE IF s[1] = sep /\ s[2] = sep THEN collapse(Tail(s), sep)
    ELSE <<s[1]>> \o collapse(Tail(s), sep)

RECURSIVE lstrip(_, _)
\* re.sub(^c+, '', s)
lstrip(s, c) ==
    IF s # << >> /\ Head(s) = c THEN lstrip(Tail(s), c) ELSE s

\* re.sub(^sep|sep$, '', s): one leading sep, and one sep at the end of the
\* string or right before a final newline ($ also matches there)
strip_ends(s, sep) ==
    LET t == IF s # << >> /\ Head(s) = sep THEN Tail(s) ELSE s
        n == Len(t)
    IN  IF n >= 1 /\ t[n] = sep THEN SubSeq(t, 1, n - 1)
        ELSE IF n >= 2 /\ t[n] = 10 /\ t[n - 1] = sep
             THEN SubSeq(t, 1, n - 2) \o <<10>>
        ELSE t

RECURSIVE str_lt(_, _)
\* s < t for Python str: lexicographic by code point
str_lt(s, t) ==
    IF t = << >> THEN FALSE
    ELSE IF s = << >> THEN TRUE
    ELSE IF Head(s) # Head(t) THEN Head(s) < Head(t)
    ELSE str_lt(Tail(s), Tail(t))

RECURSIVE insert_sorted(_, _)
insert_sorted(x, xs) ==
    IF xs = << >> THEN <<x>>
    ELSE IF str_lt(x, Head(xs)) THEN <<x>> \o xs
    ELSE <<Head(xs)>> \o insert_sorted(x, Tail(xs))

RECURSIVE sorted(_)
\* sorted(parts)
sorted(parts) ==
    IF parts = << >> THEN << >>
    ELSE insert_sorted(Head(parts), sorted(Tail(parts)))

\* str.lower() on ASCII letters
lower(s) == [i \in 1..Len(s) |-> IF s[i] \in 65..90 THEN s[i] + 32 ELSE s[i]]

\* the index of the first '=' of q, 0 when there is none
first_eq(q) ==
    IF \E i \in 1..Len(q) : q[i] = 61
    THEN CHOOSE i \in 1..Len(q) : q[i] = 61 /\ \A j \in 1..(i - 1) : q[j] # 61
    ELSE 0

\* q.partition('='): name and value, value '' when there is no '='
partition(q) ==
    LET i == first_eq(q)
    IN  IF i = 0 THEN [name |-> q, value |-> << >>]
        ELSE [name |-> SubSeq(q, 1, i - 1), value |-> From(q, i + 1)]

(***************************************************************************)
(* urllib.parse.unquote and urllib.parse.quote.                            *)
(***************************************************************************)
hexval(c) ==
    IF c \in 48..57 THEN c - 48
    ELSE IF c \in 65..70 THEN c - 55
    ELSE IF c \in 97..102 THEN c - 87
    ELSE -1

\* the byte a %XX at position i of s stands for, -1 when there is none
byte_at(s, i) ==
    IF i + 2 <= Len(s) /\ s[i] = 37 /\ hexval(s[i + 1]) >= 0 /\ hexval(s[i + 2]) >= 0
    THEN 16 * hexval(s[i + 1]) + hexval(s[i + 2])
    ELSE -1

\* a %XX at position i of s stands for a byte in lo..hi
cont(s, i, lo, hi) == byte_at(s, i) \in lo..hi

\* how many continuation bytes the UTF-8 lead byte takes, 0: not a lead byte
utf8_need(lead) ==
    IF lead \in 194..223 THEN 1
    ELSE IF lead \in 224..239 THEN 2
    ELSE IF lead \in 240..244 THEN 3
    ELSE 0

\* the least and greatest second byte after the lead byte
utf8_lo2(lead) == IF lead = 224 THEN 160 ELSE IF lead = 240 THEN 144 ELSE 128

utf8_hi2(lead) == IF lead = 237 THEN 159 ELSE IF lead = 244 THEN 143 ELSE 191

RECURSIVE unquote_from(_, _)
\* unquote(s[i:]): a %XX is one byte, any other character is itself; the
\* bytes are decoded as UTF-8 with errors='replace' (U+FFFD, 65533, for
\* every maximal ill-formed prefix)
unquote_from(s, i) ==
    IF i > Len(s) THEN << >>
    ELSE LET c0 == byte_at(s, i)
             c1 == byte_at(s, i + 3)
             c2 == byte_at(s, i + 6)
             c3 == byte_at(s, i + 9)
             n  == utf8_need(c0)
         IN  IF c0 = -1 THEN <<s[i]>> \o unquote_from(s, i + 1)
             ELSE IF c0 < 128 THEN <<c0>> \o unquote_from(s, i + 3)
             ELSE IF n = 0 \/ ~cont(s, i + 3, utf8_lo2(c0), utf8_hi2(c0))
                  THEN <<65533>> \o unquote_from(s, i + 3)
             ELSE IF n = 1
                  THEN <<(c0 - 192) * 64 + (c1 - 128)>> \o unquote_from(s, i + 6)
             ELSE IF ~cont(s, i + 6, 128, 191)
                  THEN <<65533>> \o unquote_from(s, i + 6)
             ELSE IF n = 2
                  THEN <<(c0 - 224) * 4096 + (c1 - 128) * 64 + (c2 - 128)>>
                       \o unquote_from(s, i + 9)
             ELSE IF ~cont(s, i + 9, 128, 191)
                  THEN <<65533>> \o unquote_from(s, i + 9)
             ELSE <<(c0 - 240) * 262144 + (c1 - 128) * 4096
                        + (c2 - 128) * 64 + (c3 - 128)>>
                  \o unquote_from(s, i + 12)

\* urllib.parse.unquote(s)
urllib_unquote(s) == unquote_from(s, 1)

\* c.encode('utf-8')
utf8_encode(c) ==
    IF c < 128 THEN <<c>>
    ELSE IF c < 2048 THEN <<192 + (c \div 64), 128 + (c % 64)>>
    ELSE IF c < 65536
         THEN <<224 + (c \div 4096), 128 + ((c \div 64) % 64), 128 + (c % 64)>>
    ELSE <<240 + (c \div 262144), 128 + ((c \div 4096) % 64),
           128 + ((c \div 64) % 64), 128 + (c % 64)>>

\* the upper-case hexadecimal digit of d
hexdigit(d) == IF d < 10 THEN 48 + d ELSE 55 + d

RECURSIVE quote_bytes(_, _)
\* quote_from_bytes: a byte of the safe set (the unreserved characters are
\* always safe) is itself, any other byte is %XX in upper case
quote_bytes(bs, safe) ==
    IF bs = << >> THEN << >>
    ELSE (IF Head(bs) \in (UNRESERVED \cup safe)
          THEN <<Head(bs)>>
          ELSE <<37, hexdigit(Head(bs) \div 16), hexdigit(Head(bs) % 16)>>)
         \o quote_bytes(Tail(bs), safe)

RECURSIVE urllib_quote(_, _)
\* urllib.parse.quote(s, safe=safe)
urllib_quote(s, safe) ==
    IF s = << >> THEN << >>
    ELSE quote_bytes(utf8_encode(Head(s)), safe) \o urllib_quote(Tail(s), safe)

(***************************************************************************)
(* The URL value and its operations.  Every operation but equiv returns    *)
(* self, mutated in place: the operator gives the fields after the call.   *)
(***************************************************************************)
\* bool(port): None and 0 are false
truthy(port) == port # None /\ port[1] # 0

\* bool(s) of a str that may be None: None and '' are false
truthy_str(s) == s # None /\ s[1] # << >>

\* PORTS.get(scheme, None)
PORTS_get(scheme) ==
    IF scheme \in DOMAIN PORTS THEN Some(PORTS[scheme]) ELSE None

\* URL.__init__: params and query are str here, path a str
URL(scheme, host, port, path, params, query, fragment, userinfo) ==
    [scheme   |-> scheme,
     host     |-> host,
     port     |-> port,
     path     |-> IF path = << >> THEN <<47>> ELSE path,
     params   |-> strip_ends(collapse(lstrip(params, 59), 59), 59),
     query    |-> strip_ends(collapse(lstrip(query, 63), 38), 38),
     fragment |-> fragment,
     userinfo |-> userinfo]

\* URL.canonical
canonical(u) ==
    [u EXCEPT !.query  = join(sorted(split(u.query, 38)), 38),
              !.params = join(sorted(split(u.params, 59)), 59)]

\* URL.defrag
defrag(u) == [u EXCEPT !.fragment = None]

\* URL.deuserinfo
deuserinfo(u) == [u EXCEPT !.userinfo = None]

\* deparam's closure comparing the name as it is written, not lowered
call_cased(function, name, value) ==
    CASE function.kind = "deparam"  -> name \in function.lowered
      [] function.kind = "no_value" -> value = << >>
      [] function.kind = "same"     -> name = value
      [] function.kind = "all"      -> TRUE

\* function(name, value), for the functions a caller hands to filter_params:
\* deparam's closure over the lowered names, and three others
call(function, name, value) ==
    CASE function.kind = "deparam"  -> lower(name) \in function.lowered
      [] function.kind = "no_value" -> value = << >>
      [] function.kind = "same"     -> name = value
      [] function.kind = "all"      -> TRUE

\* keep(query) of filter_params
keep(function, q) ==
    LET nv == partition(q) IN ~call(function, nv.name, nv.value)

\* sep.join(q for q in s.split(sep) if q and keep(q))
filter_segments(s, sep, function) ==
    join(SelectSeq(split(s, sep), LAMBDA q : q # << >> /\ keep(function, q)), sep)

\* URL.filter_params
filter_params(u, function) ==
    [u EXCEPT !.query  = filter_segments(u.query, 38, function),
              !.params = filter_segments(u.params, 59, function)]

\* URL.deparam: params is the set of names of the list handed in
deparam(u, params) ==
    filter_params(u, [kind |-> "deparam", lowered |-> {lower(p) : p \in params}])

RECURSIVE abspath_loop(_, _, _)
\* the for loop of abspath over the parts left: unsplit and directory
abspath_loop(parts, unsplit, directory) ==
    IF parts = << >> THEN [unsplit |-> unsplit, directory |-> directory]
    ELSE LET part == Head(parts)
         IN  IF part = <<46, 46>>
             THEN \* not unsplit, or unsplit.pop() != None: a str is never None
                  abspath_loop(Tail(parts),
                               IF unsplit = << >> THEN << >>
                               ELSE SubSeq(unsplit, 1, Len(unsplit) - 1),
                               TRUE)
             ELSE IF part # <<46>>
             THEN abspath_loop(Tail(parts), Append(unsplit, part), FALSE)
             ELSE abspath_loop(Tail(parts), unsplit, TRUE)

\* the path abspath leaves
abspath_path(path) ==
    LET r == abspath_loop(split(collapse(path, 47), 47), << >>, FALSE)
    IN  IF r.directory THEN join(r.unsplit, 47) \o <<47>>
        ELSE join(r.unsplit, 47)

\* URL.abspath
abspath(u) == [u EXCEPT !.path = abspath_path(u.path)]

\* urllib_quote(s, safe=safe), the str not unquoted first
requote_raw(s, safe) == urllib_quote(s, safe)

\* urllib_quote(urllib_unquote(s), safe=safe)
requote(s, safe) == urllib_quote(urllib_unquote(s), safe)

\* URL.escape
escape(u) ==
    [u EXCEPT !.path     = requote(u.path, PATH),
              !.query    = requote(u.query, QUERY),
              !.params   = requote(u.params, QUERY),
              !.userinfo = IF truthy_str(u.userinfo)
                           THEN Some(requote(u.userinfo[1], USERINFO))
                           ELSE u.userinfo]

\* URL.unescape
unescape(u) == [u EXCEPT !.path = urllib_unquote(u.path)]

\* URL.sanitize
sanitize(u) == escape(abspath(u))

\* remove_default_port raises KeyError: PORTS[self.scheme] is evaluated and
\* the scheme is no key of PORTS
remove_default_port_raises(u) ==
    truthy(u.port) /\ u.scheme # "" /\ u.scheme \notin DOMAIN PORTS

\* URL.remove_default_port, when it returns
remove_default_port(u) ==
    IF truthy(u.port) /\ u.scheme # "" /\ u.port[1] = PORTS[u.scheme]
    THEN [u EXCEPT !.port = None]
    ELSE u

\* .canonical().defrag().abspath().escape()
equiv_chain(u) == escape(abspath(defrag(canonical(u))))

\* the value equiv returns for _self and _other after the chain
equiv_result(self, other) ==
    IF /\ self.scheme = other.scheme
       /\ self.host = other.host
       /\ self.path = other.path
       /\ self.params = other.params
       /\ self.query = other.query
    THEN IF truthy(self.port) /\ ~truthy(other.port)
         THEN self.port = PORTS_get(self.scheme)
         ELSE IF truthy(other.port) /\ ~truthy(self.port)
         THEN other.port = PORTS_get(other.scheme)
         ELSE self.port = other.port
    ELSE FALSE

\* URL.equiv(self, other), other a URL: parse returns the object it is given,
\* so _other is other and _self is self, and the chain mutates both in place
equiv(self, other) ==
    [self   |-> equiv_chain(self),
     other  |-> equiv_chain(other),
     result |-> equiv_result(equiv_chain(self), equiv_chain(other))]

(***************************************************************************)
(* Inputs.  A URL is constructed from the components the URI parser hands  *)
(* to URL.__init__; each family below varies one component over every str  *)
(* of bounded length over a few characters and keeps the others fixed.     *)
(***************************************************************************)
\* http://h/#f
Components ==
    [scheme |-> "http", host |-> "h", port |-> None, path |-> <<47>>,
     params |-> << >>, query |-> << >>, fragment |-> Some(<<102>>),
     userinfo |-> None]

\* paths of segments: "/", "." and "a"
SegmentPaths == Strs({47, 46, 97}, MaxPathLen)

\* paths of escapes: "%", "2" and "5" (%22 is '"', %25 "%", %52 "R", %55 "U")
EscapePaths == Strs({37, 50, 53}, MaxPathLen)

\* paths of escapes and of a character escape quotes: '"', "%", "2" and "5"
QuotedPaths == Strs({34, 37, 50, 53}, MaxPathLen)

\* queries of named segments: "&", "=", "a", "A" and "b"
NamedQueries == Strs({38, 61, 97, 65, 98}, MaxFilterLen)

\* queries of segments: "&", "=", "a" and "A"
SegmentQueries == Strs({38, 61, 97, 65}, MaxQueryLen)

\* queries of escapes: "%", "2", "6" and "&" (%26 is "&", %62 "b", %66 "f")
EscapeQueries == Strs({37, 50, 54, 38}, MaxQueryLen)

\* params of segments: ";", "=", "a" and "A"
SegmentParams == Strs({59, 61, 97, 65}, MaxParamsLen)

\* params of escapes: "%", "3", "B" and ";" (%3B is ";", %B3 and %BB no UTF-8)
EscapeParams == Strs({37, 51, 66, 59}, MaxParamsLen)

\* userinfo of "u", ":", "@" and "%", or None
Userinfos == {None} \cup {Some(s) : s \in Strs({117, 58, 64, 37}, MaxUserinfoLen)}

Schemes == {"http", "https", "ftp", ""}

\* None, and the ports 0, 80, 443 and 8080
Ports == {None, Some(0), Some(80), Some(443), Some(8080)}

PathInputs ==
    {[Components EXCEPT !.path = p] : p \in SegmentPaths \cup EscapePaths}

ParamsInputs ==
    {[Components EXCEPT !.query = q] : q \in SegmentQueries \cup EscapeQueries}
    \cup {[Components EXCEPT !.params = q] : q \in SegmentParams \cup EscapeParams}

NetlocInputs ==
    {[Components EXCEPT !.scheme = s, !.port = p, !.userinfo = i] :
        s \in Schemes, p \in Ports, i \in Userinfos}

QuotedInputs == {[Components EXCEPT !.path = p] : p \in QuotedPaths}

FilterInputs ==
    {[Components EXCEPT !.query = q] : q \in NamedQueries}
    \cup {[Components EXCEPT !.params = q] : q \in SegmentParams}

Inputs == PathInputs \cup ParamsInputs \cup NetlocInputs

\* the operands of equiv: "/", "/%2E" and "/a"; "", "a&b" and "b&a"
EquivInputs ==
    {[Components EXCEPT !.scheme = s, !.port = p, !.path = q, !.query = r] :
        s \in Schemes \ {""}, p \in Ports,
        q \in {<<47>>, <<47, 37, 50, 69>>, <<47, 97>>},
        r \in {<< >>, <<97, 38, 98>>, <<98, 38, 97>>}}

\* URL(**c)
Construct(c) ==
    URL(c.scheme, c.host, c.port, c.path, c.params, c.query, c.fragment,
        c.userinfo)

\* the lists of names handed to deparam: ["a"], ["A"], ["a", "="], []
NameLists == {{<<97>>}, {<<65>>}, {<<97>>, <<61>>}, {}}

\* the functions handed to filter_params
Functions == {[kind |-> "no_value"], [kind |-> "same"], [kind |-> "all"]}

(***************************************************************************)
(* The state: the URL objects a and b; pre, their fields before the last   *)
(* call; last, the method called, arg its argument and ret what it         *)
(* returned or raised; streak, how many calls of a.equiv(b) were made in a *)
(* row (up to 2) and ret2, what the one before the last returned.          *)
(***************************************************************************)
Constructed(as, bs) ==
    /\ a \in {Construct(c) : c \in as}
    /\ b \in {Construct(c) : c \in bs}
    /\ pre = [a |-> a, b |-> b]
    /\ last = "__init__"
    /\ arg = None
    /\ ret = "None"
    /\ streak = 0
    /\ ret2 = "None"

Init == Constructed(Inputs, {Components})

\* a.<method>(arg) returned self, with the fields u
Returns(method, argument, u) ==
    /\ a' = u
    /\ pre' = [a |-> a, b |-> b]
    /\ last' = method
    /\ arg' = argument
    /\ ret' = "self"
    /\ streak' = 0
    /\ ret2' = "None"
    /\ UNCHANGED b

Canonical == Returns("canonical", None, canonical(a))

Defrag == Returns("defrag", None, defrag(a))

Deuserinfo == Returns("deuserinfo", None, deuserinfo(a))

Deparam == \E params \in NameLists : Returns("deparam", params, deparam(a, params))

FilterParams ==
    \E function \in Functions :
        Returns("filter_params", function, filter_params(a, function))

Abspath == Returns("abspath", None, abspath(a))

Escape == Returns("escape", None, escape(a))

Unescape == Returns("unescape", None, unescape(a))

Sanitize == Returns("sanitize", None, sanitize(a))

RemoveDefaultPort ==
    IF remove_default_port_raises(a)
    THEN /\ pre' = [a |-> a, b |-> b]
         /\ last' = "remove_default_port"
         /\ arg' = None
         /\ ret' = "KeyError"
         /\ streak' = 0
         /\ ret2' = "None"
         /\ UNCHANGED <<a, b>>
    ELSE Returns("remove_default_port", None, remove_default_port(a))

\* a.equiv(b)
Equiv ==
    LET r == equiv(a, b)
    IN  /\ a' = r.self
        /\ b' = r.other
        /\ pre' = [a |-> a, b |-> b]
        /\ last' = "equiv"
        /\ arg' = None
        /\ ret' = IF r.result THEN "True" ELSE "False"
        /\ streak' = IF streak < 2 THEN streak + 1 ELSE 2
        /\ ret2' = IF streak >= 1 THEN ret ELSE "None"

Next ==
    \/ Canonical
    \/ Defrag
    \/ Deuserinfo
    \/ Deparam
    \/ FilterParams
    \/ Abspath
    \/ Escape
    \/ Unescape
    \/ Sanitize
    \/ RemoveDefaultPort
    \/ Equiv

Spec == Init /\ [][Next]_vars

(***************************************************************************)
(* The operations of one claim on the inputs they read.                    *)
(***************************************************************************)
InitEquiv == Constructed(EquivInputs, EquivInputs)

SpecEquiv == InitEquiv /\ [][Equiv]_vars

NextIdempotent == Canonical \/ Abspath \/ Escape \/ Unescape \/ Sanitize

SpecIdempotent == Init /\ [][NextIdempotent]_vars

InitEscape == Constructed(QuotedInputs, {Components})

NextEscape == Escape \/ Unescape

SpecEscape == InitEscape /\ [][NextEscape]_vars

InitParams == Constructed(FilterInputs, {Components})

NextParams == Deparam \/ FilterParams

SpecParams == InitParams /\ [][NextParams]_vars

(***************************************************************************)
(* Properties.                                                             *)
(***************************************************************************)
\* C1: equiv never mutates its operands: after a.equiv(b) returns, every
\* field of a and of b has the value it had before the call.
EquivLeavesOperands == last = "equiv" => (a = pre.a /\ b = pre.b)

\* C2: equiv is false when scheme, host, path, params or query differ after
\* the chain; otherwise it is true exactly when both ports are absent or
\* both carry the same port, or exactly one side carries a port and that
\* port is the default of its own scheme.
EquivPortRule ==
    last = "equiv" =>
        LET s == equiv_chain(pre.a)
            o == equiv_chain(pre.b)
            same == /\ s.scheme = o.scheme
                    /\ s.host = o.host
                    /\ s.path = o.path
                    /\ s.params = o.params
                    /\ s.query = o.query
            ports == \/ s.port = o.port
                     \/ /\ s.port # None
                        /\ o.port = None
                        /\ s.port = PORTS_get(s.scheme)
                     \/ /\ o.port # None
                        /\ s.port = None
                        /\ o.port = PORTS_get(o.scheme)
        IN  (ret = "True") <=> (same /\ ports)

\* C3: abspath absorbs a ".." that climbs above the root: a path that starts
\* with "/" still starts with "/" after abspath.
AbspathKeepsRoot ==
    (last = "abspath" /\ pre.a.path # << >> /\ Head(pre.a.path) = 47)
        => (a.path # << >> /\ Head(a.path) = 47)

\* C4: remove_default_port returns normally for every URL; it clears the
\* port exactly when the port is set and is the default of the scheme, and
\* leaves every field as it was otherwise.
RemoveDefaultPortTotal ==
    last = "remove_default_port" =>
        /\ ret = "self"
        /\ a = IF pre.a.port # None /\ pre.a.port = PORTS_get(pre.a.scheme)
               THEN [pre.a EXCEPT !.port = None]
               ELSE pre.a

\* C5: abspath, canonical and escape are idempotent: applied a second time,
\* each leaves every field as its first application left it.
Idempotent ==
    /\ last = "abspath" => abspath(a) = a
    /\ last = "canonical" => canonical(a) = a
    /\ last = "escape" => escape(a) = a

\* abspath has rewritten a path with a "..", and the path has two segments left
IdempotentWitness ==
    /\ last = "abspath"
    /\ \E i \in 1..(Len(pre.a.path) - 1) :
            pre.a.path[i] = 46 /\ pre.a.path[i + 1] = 46
    /\ a.path # pre.a.path
    /\ Len(split(a.path, 47)) >= 2

\* C6 as the spec states it: for every path x that escape has produced,
\* escape(unescape(x)) == escape(x).
EscapeRoundTrip ==
    last = "escape" => escape(unescape(a)).path = escape(a).path

\* C6, amended: for every path x that escape has produced and that holds no
\* "%25" (no escaped percent sign), escape(unescape(x)) == escape(x).
EscapeRoundTripNoPercent ==
    (/\ last = "escape"
     /\ ~\E i \in 1..(Len(a.path) - 2) :
            a.path[i] = 37 /\ a.path[i + 1] = 50 /\ a.path[i + 2] = 53)
        => escape(unescape(a)).path = escape(a).path

\* escape has produced a path with an escape in it and no "%25", which
\* unescape changes
EscapeRoundTripWitness ==
    /\ last = "escape"
    /\ \E i \in 1..Len(a.path) : a.path[i] = 37
    /\ ~\E i \in 1..(Len(a.path) - 2) :
            a.path[i] = 37 /\ a.path[i + 1] = 50 /\ a.path[i + 2] = 53
    /\ unescape(a).path # a.path
    /\ a.path # pre.a.path

\* C7: filter_params leaves in query and in params exactly the non-empty
\* segments for which the function is false of (name, value), split on the
\* first "=", in their original order; deparam removes the segments whose
\* lowered name is one of the lowered names, whatever the case of either.
FilterKeepsOrder ==
    last \in {"deparam", "filter_params"} =>
        \A f \in {[sep |-> 38, old |-> pre.a.query, new |-> a.query],
                  [sep |-> 59, old |-> pre.a.params, new |-> a.params]} :
            LET olds == split(f.old, f.sep)
                news == IF f.new = << >> THEN << >> ELSE split(f.new, f.sep)
                \* the name of a segment: what precedes its first "="
                name(q) ==
                    IF \E i \in 1..Len(q) : q[i] = 61
                    THEN SubSeq(q, 1, (CHOOSE i \in 1..Len(q) :
                            q[i] = 61 /\ \A j \in 1..(i - 1) : q[j] # 61) - 1)
                    ELSE q
                value(q) ==
                    IF Len(name(q)) = Len(q) THEN << >>
                    ELSE SubSeq(q, Len(name(q)) + 2, Len(q))
                removed(q) ==
                    IF last = "deparam"
                    THEN \E p \in arg : lower(p) = lower(name(q))
                    ELSE CASE arg.kind = "no_value" -> value(q) = << >>
                           [] arg.kind = "same" -> name(q) = value(q)
                           [] arg.kind = "all" -> TRUE
                kept == {i \in 1..Len(olds) : olds[i] # << >> /\ ~removed(olds[i])}
            IN  /\ Len(news) = Cardinality(kept)
                /\ \A k \in 1..Len(news) :
                      \E i \in kept :
                          /\ Cardinality({j \in kept : j <= i}) = k
                          /\ news[k] = olds[i]

\* deparam(["a"]) has removed a segment named "A" and left two segments in
\* an order that is not the sorted one
FilterKeepsOrderWitness ==
    /\ last = "deparam"
    /\ arg = {<<97>>}
    /\ \E q \in {split(pre.a.query, 38)[i] : i \in 1..Len(split(pre.a.query, 38))} :
          q # << >> /\ Head(q) = 65
    /\ Len(split(a.query, 38)) = 2
    /\ a.query # canonical(a).query
    /\ \A i \in 1..Len(a.query) : a.query[i] # 65

\* C8: the path is never empty, after construction and after any sequence of
\* the operations.
PathNeverEmpty == a.path # << >> /\ b.path # << >>

\* C9: params holds no leading, trailing or doubled ";" and query no leading,
\* trailing or doubled "&", after construction and after any sequence of the
\* operations.
NoStrayDelimiters ==
    \A f \in {[sep |-> 59, s |-> a.params], [sep |-> 38, s |-> a.query]} :
        /\ f.s # << >> => (Head(f.s) # f.sep /\ f.s[Len(f.s)] # f.sep)
        /\ \A i \in 1..(Len(f.s) - 1) : ~(f.s[i] = f.sep /\ f.s[i + 1] = f.sep)

\* C10: equiv is repeatable: a.equiv(b) called twice in a row returns the
\* same boolean both times.
EquivRepeatable == streak = 2 => ret = ret2

====
